---------------------------- MODULE Spec2Model ----------------------------
(***************************************************************************)
(* A model of the dictation practice page (src/app/page.tsx): the sentence *)
(* store kept in React state, its effects, the sanitizing loader and the   *)
(* word-by-word match engine.                                              *)
(*                                                                         *)
(* A string is a sequence of symbols: a symbol is one white-space          *)
(* character or a run of characters that are not white space ("a", "dog.", *)
(* "s-1"); no string is written in two ways.  A JSON value is a record     *)
(* tagged with its kind.  A React state update and the effects that follow *)
(* the render it causes are separate steps.                                *)
(***************************************************************************)
EXTENDS Integers, Sequences, FiniteSets, TLC

(***************************************************************************)
(* Bounds of the model.                                                    *)
(***************************************************************************)
\* longest target or typed text of the match engine's exhaustive check
MaxLen == 5
\* most elements of a JSON array handed to the loader, and most sentences of
\* a collection that is saved
MaxEntries == 3
\* most sentences of the in-memory collection (Add stops there)
MaxSentences == 4
\* most file reads of handleImportFile in flight at once
MaxReads == 2
\* most user and file events of one session
MaxEvents == 4
\* most storage writes that throw in one session
MaxThrows == 1

(***************************************************************************)
(* Characters and strings.                                                 *)
(***************************************************************************)
\* the characters JavaScript's \s and String.prototype.trim treat as space
WhiteSpace == {" ", "\n"}

\* the characters the exhaustive checks draw texts from
Alphabet == {"a", "b", " "}

IsSpace(c) == c \in WhiteSpace

\* all strings over S of length at most n
StringsUpTo(S, n) == UNION {[1..k -> S] : k \in 0..n}

RECURSIVE trimStart(_)
trimStart(s) ==
    IF s # <<>> /\ IsSpace(Head(s)) THEN trimStart(Tail(s)) ELSE s

RECURSIVE trimEnd(_)
trimEnd(s) ==
    IF s # <<>> /\ IsSpace(s[Len(s)])
    THEN trimEnd(SubSeq(s, 1, Len(s) - 1))
    ELSE s

\* String.prototype.trim
trim(s) == trimEnd(trimStart(s))

\* value.replace(/\s+/g, " "): every maximal whitespace run becomes one space
RECURSIVE replaceSpaceRuns(_)
replaceSpaceRuns(s) ==
    IF s = <<>> THEN <<>>
    ELSE IF IsSpace(Head(s))
         THEN <<" ">> \o replaceSpaceRuns(trimStart(s))
         ELSE <<Head(s)>> \o replaceSpaceRuns(Tail(s))

\* normalize without the final trim (a plausible slip)
normalizeNoTrim(value) == replaceSpaceRuns(value)

normalize(value) == trim(replaceSpaceRuns(value))

\* String.prototype.split(/\s+/): the pieces between whitespace runs; a
\* leading or trailing run yields an empty first or last piece, and the
\* empty string yields one empty piece
RECURSIVE splitFrom(_, _)
splitFrom(s, piece) ==
    IF s = <<>> THEN <<piece>>
    ELSE IF IsSpace(Head(s))
         THEN <<piece>> \o splitFrom(trimStart(s), <<>>)
         ELSE splitFrom(Tail(s), Append(piece, Head(s)))

split(s) == splitFrom(s, <<>>)

\* Array.prototype.filter(Boolean) on strings: the empty string is falsy
filterBoolean(words) == SelectSeq(words, LAMBDA w : w # <<>>)


(***************************************************************************)
(* The match engine: the wordStates/mismatch memo and the completion test  *)
(* of handleInputChange.  null is the empty sequence, an object a sequence *)
(* of one record.                                                          *)
(***************************************************************************)
Null == <<>>

\* the callback of targetWords.map without the mismatchFound latch (a
\* plausible slip: every position is compared on its own)
wordStatusNoLatch(word, typedWords, index, mismatchFound) ==
    IF index > Len(typedWords) THEN "upcoming"
    ELSE IF typedWords[index] = word THEN "correct"
    ELSE "error"

\* the status the callback of targetWords.map returns for one target word
wordStatus(word, typedWords, index, mismatchFound) ==
    IF mismatchFound THEN "upcoming"
    ELSE IF index > Len(typedWords) THEN "upcoming"
    ELSE IF typedWords[index] = word THEN "correct"
    ELSE "error"

\* targetWords.map(...) from position index on; acc carries the states so
\* far, the mismatch and the mismatchFound latch
RECURSIVE mapWords(_, _, _, _)
mapWords(targetWords, typedWords, index, acc) ==
    IF index > Len(targetWords) THEN acc
    ELSE LET word == targetWords[index]
             status == wordStatus(word, typedWords, index, acc.mismatchFound)
             hit == status = "error" /\ ~acc.mismatchFound
         IN  mapWords(targetWords, typedWords, index + 1,
                 [states |-> Append(acc.states,
                                    [word |-> word, status |-> status]),
                  mismatch |-> IF hit
                               THEN <<[expected |-> word,
                                       typed |-> typedWords[index]]>>
                               ELSE acc.mismatch,
                  mismatchFound |-> acc.mismatchFound \/ hit])

\* the extra-word test off by one (a plausible slip)
hasExtraWordsOffByOne(typedWords, targetWords) ==
    Len(typedWords) > Len(targetWords) + 1

\* typedWords.length > targetWords.length
hasExtraWords(typedWords, targetWords) == Len(typedWords) > Len(targetWords)

\* the memo with the extra-word test made before looking at the scan's
\* mismatch (a plausible slip: extra words hide the scan's error)
wordStatesMemoExtraFirst(text, inputValue) ==
    LET targetWords == filterBoolean(split(text))
        typedWords == IF trim(inputValue) # <<>>
                      THEN split(trim(inputValue))
                      ELSE <<>>
        scanned == mapWords(targetWords, typedWords, 1,
                       [states |-> <<>>, mismatch |-> Null,
                        mismatchFound |-> FALSE])
    IN  [wordStates |-> scanned.states,
         mismatch |->
            IF hasExtraWords(typedWords, targetWords)
            THEN <<[expected |-> <<>>,
                    typed |-> typedWords[Len(targetWords) + 1]]>>
            ELSE scanned.mismatch]

\* the useMemo that yields { wordStates, mismatch } for a current sentence
wordStatesMemo(text, inputValue) ==
    LET targetWords == filterBoolean(split(text))
        typedWords == IF trim(inputValue) # <<>>
                      THEN split(trim(inputValue))
                      ELSE <<>>
        scanned == mapWords(targetWords, typedWords, 1,
                       [states |-> <<>>, mismatch |-> Null,
                        mismatchFound |-> FALSE])
    IN  [wordStates |-> scanned.states,
         mismatch |->
            IF scanned.mismatch = Null /\ hasExtraWords(typedWords, targetWords)
            THEN <<[expected |-> <<>>,
                    typed |-> typedWords[Len(targetWords) + 1]]>>
            ELSE scanned.mismatch]

\* the completion test with the typed value compared as typed (a plausible
\* slip: only the target normalized)
isCompleteRawTyped(text, value) ==
    LET expected == normalize(text)
    IN  Len(expected) > 0 /\ value = expected

\* the test of handleInputChange that decides completion
isComplete(text, value) ==
    LET expected == normalize(text)
        typed == normalize(value)
    IN  Len(expected) > 0 /\ typed = expected

(***************************************************************************)
(* JSON values and the loader, sanitizeSentencesPayload.                   *)
(*                                                                         *)
(* A top-level value is [kind, items]; an element of an array is           *)
(* [kind, id, text], where id and text are the element's fields: absent,   *)
(* of another type than string, or a string.                               *)
(***************************************************************************)
Absent == [is |-> "absent", str |-> <<>>]
NonString == [is |-> "number", str |-> <<>>]
Str(s) == [is |-> "string", str |-> s]

JsonNull == [kind |-> "null", id |-> Absent, text |-> Absent]
JsonString == [kind |-> "string", id |-> Absent, text |-> Absent]
JsonArray == [kind |-> "array", id |-> Absent, text |-> Absent]
JsonObject(id, text) == [kind |-> "object", id |-> id, text |-> text]

\* typeof
typeOf(entry) ==
    IF entry.kind \in {"null", "array", "object"} THEN "object" ELSE entry.kind

\* the values makeId may return, as short strings: "x" is a value that a
\* file may also carry as a literal id (an exported file holds generated
\* ids); the loader's retry loop needs one value more than it can have seen
Digits == <<"1", "2", "3", "4", "5", "6", "7", "8", "9">>
makeId == {<<"x">>} \cup {<<"g", Digits[i]>> : i \in 1..MaxEntries}

\* the keep test with a truthiness test of the text (a plausible slip:
\* empty texts would be dropped)
isKeptTruthyText(entry) ==
    /\ ~(entry.kind = "null" \/ typeOf(entry) # "object")
    /\ entry.text.is = "string" /\ entry.text.str # <<>>

\* the two continue tests of the loop: a kept entry is a non-null object
\* whose text is a string
isKept(entry) ==
    /\ ~(entry.kind = "null" \/ typeOf(entry) # "object")
    /\ entry.text.is = "string"

\* the id assignment without the retry loop (a plausible slip)
assignedIdsNoRetry(entry, seenIds) ==
    IF entry.id.is = "string" /\ Len(trim(entry.id.str)) > 0
    THEN {trim(entry.id.str)}
    ELSE makeId

\* the ids the loop may assign to a kept entry: its own trimmed id or a
\* generated one, and while that is in seenIds, another generated one
assignedIds(entry, seenIds) ==
    LET first == IF entry.id.is = "string" /\ Len(trim(entry.id.str)) > 0
                 THEN {trim(entry.id.str)}
                 ELSE makeId
    IN  (first \ seenIds)
        \cup (IF first \cap seenIds # {} THEN makeId \ seenIds ELSE {})

\* the for loop, from the entries left: the lists it may end with
RECURSIVE sanitizeLoop(_, _, _)
sanitizeLoop(entries, seenIds, sanitized) ==
    IF entries = <<>> THEN {sanitized}
    ELSE LET entry == Head(entries)
         IN  IF ~isKept(entry)
             THEN sanitizeLoop(Tail(entries), seenIds, sanitized)
             ELSE UNION {sanitizeLoop(Tail(entries), seenIds \cup {id},
                             Append(sanitized,
                                    [id |-> id, text |-> entry.text.str])) :
                         id \in assignedIds(entry, seenIds)}

\* the results sanitizeSentencesPayload may return: ok is FALSE for null
sanitizeSentencesPayload(value) ==
    IF value.kind # "array"
    THEN {[ok |-> FALSE, sentences |-> <<>>]}
    ELSE {[ok |-> TRUE, sentences |-> list] :
              list \in sanitizeLoop(value.items, {}, <<>>)}

\* the export payload without the ids (a plausible slip)
exportPayloadTextOnly(list) ==
    [kind |-> "array",
     items |-> [i \in 1..Len(list) |->
                   JsonObject(Absent, Str(list[i].text))]]

\* the payload of handleExport, and what JSON.stringify(sentences) holds:
\* an array of {id, text} objects in collection order, as JSON.parse reads
\* it back
exportPayload(list) ==
    [kind |-> "array",
     items |-> [i \in 1..Len(list) |->
                   JsonObject(Str(list[i].id), Str(list[i].text))]]

(***************************************************************************)
(* State.                                                                  *)
(***************************************************************************)
VARIABLES
    \* React state of Home
    sentences,      \* Sentence[]: records [id, text]
    currentIndex,   \* number (0-based, as in the source)
    inputValue,     \* string
    draft,          \* string
    isReady,        \* boolean
    importStatus,   \* Null or <<[type]>>
    \* the environment of the session
    storage,        \* window.localStorage: [sentences, index]
    pending,        \* the effects whose dependencies changed in the last render
    imports,        \* the files handleImportFile is still reading
    timer,          \* the import status timeouts that are armed (a count)
    crashed,        \* whether an effect threw and React unmounted the page
    throws,         \* the storage writes that threw so far (a count)
    events,         \* the events handled so far
    last,           \* what led to the current render (a history variable)
    before,         \* currentIndex before the last handler (history)
    idChanged,      \* the last step changed currentSentence?.id (history)
    overtaken,      \* per read in flight: a later read already succeeded
                    \* (history)
    \* the match engine on its own
    target,         \* a sentence text
    typed,          \* a typed value
    matched,        \* Null or <<[completes, wordStates, mismatch]>>
    \* the loader on its own
    raw,            \* Null or <<[source, value]>>: a parsed JSON value
    loaded          \* Null or <<result of sanitizeSentencesPayload>>

sessionVars == <<sentences, currentIndex, inputValue, draft, isReady,
                 importStatus, storage, pending, imports, timer, crashed,
                 throws, events, last, before, idChanged, overtaken>>
matchVars == <<target, typed, matched>>
loadVars == <<raw, loaded>>
vars == <<sessionVars, matchVars, loadVars>>

(***************************************************************************)
(* The match engine on its own: every target and typed text up to MaxLen.  *)
(***************************************************************************)
\* texts with a line break as white space, beside the exhaustive ones
LineBreakTexts ==
    {<<"\n">>, <<"a", "\n", "b">>, <<"a", " ", "\n", "b">>, <<"\n", "a", "\n">>,
     <<"a", "\n", "\n", "b", "\n">>}

Texts == StringsUpTo(Alphabet, MaxLen) \cup LineBreakTexts

\* no session: nothing mounted
SessionOff ==
    /\ sentences = <<>> /\ currentIndex = 0 /\ inputValue = <<>>
    /\ draft = <<>> /\ isReady = FALSE /\ importStatus = Null
    /\ storage = [sentences |-> Null, index |-> Null]
    /\ pending = {} /\ imports = <<>> /\ timer = 0 /\ events = 0
    /\ crashed = FALSE /\ throws = 0
    /\ last = "none" /\ before = 0 /\ overtaken = <<>>
    /\ idChanged = FALSE

MatchOff == target = <<>> /\ typed = <<>> /\ matched = Null
LoadOff == raw = Null /\ loaded = Null

InitMatch ==
    /\ target \in Texts
    /\ typed \in Texts
    /\ matched = Null
    /\ SessionOff /\ LoadOff

\* one keystroke's worth of work: the completion test of handleInputChange
\* and the memo, on the same target and typed value
Match ==
    /\ matched = Null
    /\ matched' = <<[completes |-> isComplete(target, typed)]
                    @@ wordStatesMemo(target, typed)>>
    /\ UNCHANGED <<target, typed, sessionVars, loadVars>>

NextMatch == Match

SpecMatch == InitMatch /\ [][NextMatch]_vars

(***************************************************************************)
(* Words, stated from the text alone: a word is a maximal run of           *)
(* non-space characters.                                                   *)
(***************************************************************************)
WordStarts(s) ==
    {i \in 1..Len(s) : ~IsSpace(s[i]) /\ (i = 1 \/ IsSpace(s[i - 1]))}

WordEnd(s, i) ==
    CHOOSE j \in i..Len(s) :
        /\ \A k \in i..j : ~IsSpace(s[k])
        /\ (j = Len(s) \/ IsSpace(s[j + 1]))

WordsOf(s) ==
    [n \in 1..Cardinality(WordStarts(s)) |->
        LET i == CHOOSE i \in WordStarts(s) :
                     Cardinality({j \in WordStarts(s) : j < i}) = n - 1
        IN  SubSeq(s, i, WordEnd(s, i))]

\* the words joined by single spaces
RECURSIVE JoinWords(_)
JoinWords(ws) ==
    IF ws = <<>> THEN <<>>
    ELSE IF Len(ws) = 1 THEN ws[1]
    ELSE ws[1] \o <<" ">> \o JoinWords(Tail(ws))

IsPrefix(a, b) == Len(a) <= Len(b) /\ \A i \in 1..Len(a) : a[i] = b[i]

\* the outcome of Match, when there is one
Outcome == matched[1]

(***************************************************************************)
(* Claims about the match engine (SpecMatch).                              *)
(***************************************************************************)

\* C7: on an input change, completion fires iff the target, with every
\* whitespace run collapsed to one space and trimmed, is non-empty and
\* equals the typed value treated the same way; so a typed value with the
\* target's words and any amount of white space completes, and a target
\* with no words never completes.
C7_CompletionIffNormalizedEqual ==
    matched # Null =>
        /\ Outcome.completes <=>
              /\ JoinWords(WordsOf(target)) # <<>>
              /\ JoinWords(WordsOf(target)) = JoinWords(WordsOf(typed))
        /\ (WordsOf(target) # <<>> /\ WordsOf(typed) = WordsOf(target))
              => Outcome.completes
        /\ WordsOf(target) = <<>> => ~Outcome.completes

\* C7 witness: a typed value that differs from a two-word target in
\* leading, trailing and inner white space, and completes.
C7_Witness ==
    /\ matched # Null /\ Outcome.completes
    /\ Len(WordsOf(target)) = 2
    /\ typed # target
    /\ IsSpace(typed[1]) /\ IsSpace(typed[Len(typed)])

\* the first position where a typed word exists and differs from the
\* target word, as a set (empty when there is none)
FirstDiff(tw, yw) ==
    LET D == {i \in 1..Len(tw) : i <= Len(yw) /\ yw[i] # tw[i]}
    IN  {i \in D : \A j \in D : i <= j}

\* C9: wordStates has one entry per target word, in target order; with k
\* the first position whose typed word differs from the target word, every
\* position before k is correct, k is error with mismatch = {expected:
\* target word k, typed: typed word k}, and every position after k is
\* upcoming, whatever is typed there; with no such k, the positions that
\* have a typed word are correct and the others upcoming.
C9_FirstDivergenceScan ==
    matched # Null =>
        LET tw == WordsOf(target)
            yw == WordsOf(typed)
            ws == Outcome.wordStates
            K == FirstDiff(tw, yw)
        IN  /\ Len(ws) = Len(tw)
            /\ \A i \in 1..Len(tw) : ws[i].word = tw[i]
            /\ \A k \in K :
                  /\ \A i \in 1..(k - 1) : ws[i].status = "correct"
                  /\ ws[k].status = "error"
                  /\ Outcome.mismatch =
                        <<[expected |-> tw[k], typed |-> yw[k]]>>
                  /\ \A i \in (k + 1)..Len(tw) : ws[i].status = "upcoming"
            /\ K = {} =>
                  \A i \in 1..Len(tw) :
                      ws[i].status =
                          IF i <= Len(yw) THEN "correct" ELSE "upcoming"

\* C9 witness: correct, error, then an upcoming position whose typed word
\* equals its target word.
C9_Witness ==
    /\ matched # Null
    /\ Len(WordsOf(target)) = 3 /\ Len(WordsOf(typed)) = 3
    /\ WordsOf(typed)[3] = WordsOf(target)[3]
    /\ Outcome.wordStates[1].status = "correct"
    /\ Outcome.wordStates[2].status = "error"
    /\ Outcome.wordStates[3].status = "upcoming"

\* C10: mismatch is null iff the typed words are a word-for-word prefix
\* (empty, proper or whole) of the target words; then every position with
\* a typed word is correct, every later one is upcoming and none is error.
C10_NullMismatchIffPrefix ==
    matched # Null =>
        LET tw == WordsOf(target)
            yw == WordsOf(typed)
            ws == Outcome.wordStates
        IN  /\ Outcome.mismatch = Null <=> IsPrefix(yw, tw)
            /\ IsPrefix(yw, tw) =>
                  \A i \in 1..Len(ws) :
                      /\ i <= Len(yw) => ws[i].status = "correct"
                      /\ i > Len(yw) => ws[i].status = "upcoming"
                      /\ ws[i].status # "error"

\* C10 witness: a proper, non-empty prefix typed: no mismatch, no error.
C10_Witness ==
    /\ matched # Null
    /\ Len(WordsOf(typed)) = 1 /\ Len(WordsOf(target)) = 2
    /\ IsPrefix(WordsOf(typed), WordsOf(target))
    /\ Outcome.mismatch = Null
    /\ Outcome.wordStates[2].status = "upcoming"

\* C11: when the scan records no error and the typed text has strictly
\* more words than the target, mismatch = {expected: "", typed: the typed
\* word at the position after the last target word} and every wordState
\* is correct; when the scan recorded an error, mismatch stays the scan's
\* mismatch even if the typed text has extra words.
C11_ExtraWordsMismatch ==
    matched # Null =>
        LET tw == WordsOf(target)
            yw == WordsOf(typed)
            ws == Outcome.wordStates
            K == FirstDiff(tw, yw)
        IN  /\ (K = {} /\ Len(yw) > Len(tw)) =>
                  /\ Outcome.mismatch =
                        <<[expected |-> <<>>, typed |-> yw[Len(tw) + 1]]>>
                  /\ \A i \in 1..Len(ws) : ws[i].status = "correct"
            /\ \A k \in K :
                  Outcome.mismatch = <<[expected |-> tw[k], typed |-> yw[k]]>>

\* C11 witness: both target words typed and a third word after them.
C11_Witness ==
    /\ matched # Null
    /\ Len(WordsOf(target)) = 2 /\ Len(WordsOf(typed)) = 3
    /\ FirstDiff(WordsOf(target), WordsOf(typed)) = {}
    /\ Outcome.mismatch = <<[expected |-> <<>>, typed |-> WordsOf(typed)[3]]>>
    /\ Outcome.wordStates[2].status = "correct"

\* C22: the completion comparison and the word-by-word scan agree on every
\* input: completion fires iff the target has at least one word, every
\* wordState computed for the same typed value is correct and mismatch is
\* null; equivalently, iff the typed words are the target words.
C22_CompletionAgreesWithScan ==
    matched # Null =>
        LET ws == Outcome.wordStates
            scanClean ==
                /\ WordsOf(target) # <<>>
                /\ \A i \in 1..Len(ws) : ws[i].status = "correct"
                /\ Outcome.mismatch = Null
        IN  /\ Outcome.completes <=> scanClean
            /\ scanClean <=>
                  (WordsOf(target) # <<>> /\ WordsOf(typed) = WordsOf(target))

\* C22 witness: a typed value longer than its two-word target completes,
\* with both words correct and no mismatch.
C22_Witness ==
    /\ matched # Null /\ Outcome.completes
    /\ Len(typed) > Len(target)
    /\ Len(Outcome.wordStates) = 2
    /\ Outcome.wordStates[1].status = "correct"
    /\ Outcome.wordStates[2].status = "correct"
    /\ Outcome.mismatch = Null

(***************************************************************************)
(* The loader on its own: a collection is saved and loaded back, or an     *)
(* arbitrary JSON value is loaded.                                         *)
(***************************************************************************)
\* ids and texts of the collections that are saved
SavedIds == {<<"x">>, <<" ", "x">>, <<"y", " ">>, <<"y">>, <<" ">>}
SavedTexts == {<<>>, <<"t">>, <<" ", "t", " ">>}
Collections ==
    UNION {[1..k -> [id : SavedIds, text : SavedTexts]] : k \in 0..MaxEntries}

\* the elements of the arrays that are loaded
KeptIdFields ==
    {Absent, NonString, Str(<<" ">>), Str(<<"x">>), Str(<<" ", "x">>),
     Str(<<"y">>)}
Entries ==
    {JsonNull, JsonString, JsonArray,
     JsonObject(Str(<<"x">>), Absent), JsonObject(Str(<<"x">>), NonString)}
    \cup {JsonObject(id, text) :
            id \in KeptIdFields, text \in {Str(<<>>), Str(<<"t">>)}}
RawValues ==
    {[kind |-> k, items |-> <<>>] :
        k \in {"null", "number", "string", "object"}}
    \cup {[kind |-> "array", items |-> items] :
            items \in StringsUpTo(Entries, MaxEntries)}

InitLoad ==
    /\ \/ sentences \in Collections /\ raw = Null
       \/ /\ sentences = <<>>
          /\ raw \in {<<[source |-> "file", value |-> v]>> : v \in RawValues}
    /\ loaded = Null
    /\ currentIndex = 0 /\ inputValue = <<>>
    /\ draft = <<>> /\ isReady = FALSE /\ importStatus = Null
    /\ storage = [sentences |-> Null, index |-> Null]
    /\ pending = {} /\ imports = <<>> /\ timer = 0 /\ events = 0
    /\ crashed = FALSE /\ throws = 0
    /\ last = "none" /\ before = 0 /\ overtaken = <<>>
    /\ idChanged = FALSE
    /\ MatchOff

\* save: the collection becomes a JSON document
Save ==
    /\ raw = Null
    /\ raw' = <<[source |-> "save", value |-> exportPayload(sentences)]>>
    /\ UNCHANGED <<loaded, sessionVars, matchVars>>

\* load: the document goes through sanitizeSentencesPayload
Load ==
    /\ raw # Null /\ loaded = Null
    /\ \E result \in sanitizeSentencesPayload(raw[1].value) :
           loaded' = <<result>>
    /\ UNCHANGED <<raw, sessionVars, matchVars>>

NextLoad == Save \/ Load

SpecLoad == InitLoad /\ [][NextLoad]_vars

(***************************************************************************)
(* Claims about the loader (SpecLoad).                                     *)
(***************************************************************************)
\* stated from the text alone: blank, and the text between the first and
\* the last character that is not white space
IsBlank(s) == \A i \in 1..Len(s) : IsSpace(s[i])
Stripped(s) ==
    IF IsBlank(s) THEN <<>>
    ELSE LET I == {i \in 1..Len(s) : ~IsSpace(s[i])}
             lo == CHOOSE i \in I : \A j \in I : i <= j
             hi == CHOOSE i \in I : \A j \in I : j <= i
         IN  SubSeq(s, lo, hi)

DistinctIds(list) ==
    \A i, j \in 1..Len(list) : i # j => list[i].id # list[j].id

\* the result of Load, and the value it was given
Result == loaded[1]
Given == raw[1].value

\* a collection was saved and loaded back
RoundTripDone == raw # Null /\ raw[1].source = "save" /\ loaded # Null

\* C4 as stated: for every collection whose ids are pairwise distinct,
\* non-blank strings (ids with leading or trailing white space included),
\* load(save(s)) = s.
C4_RoundTripAnyNonBlankIds ==
    (/\ RoundTripDone
     /\ DistinctIds(sentences)
     /\ \A i \in 1..Len(sentences) : ~IsBlank(sentences[i].id))
        => Result = [ok |-> TRUE, sentences |-> sentences]

\* C4 amended: for every collection whose ids are pairwise distinct,
\* non-blank and free of leading and trailing white space, load(save(s))
\* = s: same length, same order, same id and text at every position.
C4_RoundTripTrimmedIds ==
    (/\ RoundTripDone
     /\ DistinctIds(sentences)
     /\ \A i \in 1..Len(sentences) :
            /\ ~IsBlank(sentences[i].id)
            /\ Stripped(sentences[i].id) = sentences[i].id)
        => /\ Result.ok
           /\ Len(Result.sentences) = Len(sentences)
           /\ \A i \in 1..Len(sentences) :
                  /\ Result.sentences[i].id = sentences[i].id
                  /\ Result.sentences[i].text = sentences[i].text

\* C4 witness: two sentences with distinct trimmed ids, one text empty and
\* one with white space at its ends, saved and loaded back unchanged.
C4_Witness ==
    /\ RoundTripDone
    /\ Len(sentences) = 2
    /\ sentences[1] = [id |-> <<"x">>, text |-> <<>>]
    /\ sentences[2] = [id |-> <<"y">>, text |-> <<" ", "t", " ">>]
    /\ Result = [ok |-> TRUE, sentences |-> sentences]

\* an element the loader is to keep, stated from the element alone: a
\* non-null object whose text field is a string
IsSentenceLike(entry) == entry.kind = "object" /\ entry.text.is = "string"
KeptEntries == SelectSeq(Given.items, IsSentenceLike)

\* C5: the loader returns null iff the top-level value is not an array;
\* for an array it returns, in input order, one sentence for each element
\* that is a non-null object with a string text (the text verbatim, empty
\* included) and nothing for any other element.
C5_LoadKeepsExactlyTextObjects ==
    loaded # Null =>
        /\ ~Result.ok <=> Given.kind # "array"
        /\ Given.kind = "array" =>
              /\ Len(Result.sentences) = Len(KeptEntries)
              /\ \A n \in 1..Len(KeptEntries) :
                     Result.sentences[n].text = KeptEntries[n].text.str

\* C5 witness: an array of a dropped element, a kept element with an
\* empty text and another dropped element.
C5_Witness ==
    /\ loaded # Null /\ Given.kind = "array" /\ Len(Given.items) = 3
    /\ Given.items[1] = JsonNull
    /\ Given.items[2].text = Str(<<>>) /\ Given.items[2].kind = "object"
    /\ Given.items[3].text = NonString
    /\ Len(Result.sentences) = 1 /\ Result.sentences[1].text = <<>>

\* C6 as stated: in one load the ids are pairwise distinct; a kept element
\* keeps the id of its own id field when that is a string, non-blank after
\* trimming, that no earlier kept element of this load was assigned, and
\* otherwise gets a generated id that differs from every id assigned so
\* far.
C6_KeepsOwnIdField ==
    (loaded # Null /\ Given.kind = "array") =>
        LET out == Result.sentences
        IN  /\ DistinctIds(out)
            /\ \A n \in 1..Len(out) :
                  LET field == KeptEntries[n].id
                      earlier == {out[m].id : m \in 1..(n - 1)}
                  IN  IF /\ field.is = "string" /\ ~IsBlank(field.str)
                         /\ field.str \notin earlier
                      THEN out[n].id = field.str
                      ELSE out[n].id \in makeId \ earlier

\* C6 amended: in one load the ids are pairwise distinct; a kept element
\* gets its own id field with the white space at its ends removed when the
\* field is a string, non-blank, and no earlier kept element of this load
\* was assigned that trimmed id, and otherwise gets a generated id that
\* differs from every id assigned so far (an id carried only by a dropped
\* element is not reserved).
C6_KeepsOwnTrimmedId ==
    (loaded # Null /\ Given.kind = "array") =>
        LET out == Result.sentences
        IN  /\ DistinctIds(out)
            /\ \A n \in 1..Len(out) :
                  LET field == KeptEntries[n].id
                      earlier == {out[m].id : m \in 1..(n - 1)}
                  IN  IF /\ field.is = "string" /\ ~IsBlank(field.str)
                         /\ Stripped(field.str) \notin earlier
                      THEN out[n].id = Stripped(field.str)
                      ELSE out[n].id \in makeId \ earlier

\* C6 witness: [{id:"x"}, {id:"x",text}, {id:" x",text}]: the dropped
\* element reserves nothing, the second keeps "x", the third collides
\* after trimming and gets a generated id.
C6_Witness ==
    /\ loaded # Null /\ Given.kind = "array" /\ Len(Given.items) = 3
    /\ Given.items[1] = JsonObject(Str(<<"x">>), Absent)
    /\ Given.items[2].id = Str(<<"x">>) /\ IsSentenceLike(Given.items[2])
    /\ Given.items[3].id = Str(<<" ", "x">>) /\ IsSentenceLike(Given.items[3])
    /\ Len(Result.sentences) = 2
    /\ Result.sentences[1].id = <<"x">>
    /\ Result.sentences[2].id \in makeId \ {<<"x">>}

(***************************************************************************)
(* The session: the Home component.  Only the state the sentence store    *)
(* and the match engine use is kept; speech, sounds, confetti and the menu *)
(* read it and never write it.                                             *)
(***************************************************************************)
DefaultText1 ==
    <<"The", " ", "quick", " ", "brown", " ", "fox", " ", "jumps", " ",
      "over", " ", "the", " ", "lazy", " ", "dog.">>

DefaultText2 ==
    <<"Please", " ", "open", " ", "the", " ", "window", " ", "before",
      " ", "the", " ", "rain", " ", "starts.">>

DefaultText3 ==
    <<"Travel", " ", "teaches", " ", "you", " ", "what", " ", "books",
      " ", "alone", " ", "never", " ", "can.">>

\* the first default text typed with irregular spacing
TypedDefault1 ==
    <<"The", " ", " ", "quick", " ", "brown", " ", "fox", " ", "jumps",
      " ", "over", " ", "the", " ", "lazy", " ", "dog.", " ", " ">>

DEFAULT_SENTENCES ==
    <<[id |-> <<"s-1">>, text |-> DefaultText1],
      [id |-> <<"s-2">>, text |-> DefaultText2],
      [id |-> <<"s-3">>, text |-> DefaultText3]>>

\* a file's or a storage item's text: JSON.parse throws, or yields value
Unparseable == [parses |-> FALSE, value |-> [kind |-> "null", items |-> <<>>]]
JsonText(value) == [parses |-> TRUE, value |-> value]

\* a stored index, by what Number.parseInt makes of it
NotANumber == [nan |-> TRUE, value |-> 0]
Number(n) == [nan |-> FALSE, value |-> n]

\* sentences[currentIndex] and currentSentence?.id; undefined is Null
currentSentenceOf(list, index) ==
    IF index + 1 \in 1..Len(list) THEN <<list[index + 1]>> ELSE Null
currentSentence == currentSentenceOf(sentences, currentIndex)
currentIdOf(list, index) ==
    IF currentSentenceOf(list, index) = Null THEN Null
    ELSE <<currentSentenceOf(list, index)[1].id>>

\* the updater of the clamp effect without the upper clamp (a plausible slip)
clampIndexNoUpper(previous, length) ==
    IF length = 0 THEN 0 ELSE previous

\* the updater of the clamp effect, for the length its render saw
clampIndex(previous, length) ==
    IF length = 0 THEN 0
    ELSE IF previous >= length THEN length - 1
    ELSE previous

\* the advance updater without the wrap (a plausible slip)
advanceNoWrap(previous, length) ==
    IF length = 0 THEN 0 ELSE previous + 1

\* the updater of completion and of Skip, for the length its render saw
advance(previous, length) ==
    IF length = 0 THEN 0
    ELSE IF previous + 1 < length THEN previous + 1
    ELSE 0

\* a variant whose reset effect depends on the index (a plausible slip:
\* [currentIndex] as the dependency)
effectsAfterByIndex(list, index, ready, list1, index1, ready1, touched) ==
    {e \in {"persistSentences"} : ready1 # ready \/ "sentences" \in touched}
    \cup {e \in {"persistIndex"} : ready1 # ready \/ index1 # index}
    \cup {e \in {"statusTimer"} : "importStatus" \in touched}
    \cup {e \in {"clamp"} : Len(list1) # Len(list)}
    \cup {e \in {"resetInput"} : index1 # index}

\* The effects React runs after a render: those whose dependencies differ
\* from the previous render's.  A state setter given a new array or object
\* changes the dependency even when the content is equal (touched).
effectsAfter(list, index, ready, list1, index1, ready1, touched) ==
    {e \in {"persistSentences"} : ready1 # ready \/ "sentences" \in touched}
    \cup {e \in {"persistIndex"} : ready1 # ready \/ index1 # index}
    \cup {e \in {"statusTimer"} : "importStatus" \in touched}
    \cup {e \in {"clamp"} : Len(list1) # Len(list)}
    \cup {e \in {"resetInput"} :
            currentIdOf(list1, index1) # currentIdOf(list, index)}

\* every effect runs after the first render
MountEffects ==
    {"restore", "persistSentences", "persistIndex", "statusTimer", "clamp",
     "resetInput"}

\* what the storage may hold when the page opens
StoredOne == <<[id |-> <<"x">>, text |-> <<"a", " ", " ", "b">>]>>
StoredFour ==
    DEFAULT_SENTENCES \o <<[id |-> <<"y">>, text |-> <<"t">>]>>
StoredSentences ==
    {Null, <<Unparseable>>,
     <<JsonText([kind |-> "object", items |-> <<>>])>>,
     <<JsonText(exportPayload(<<>>))>>,
     <<JsonText(exportPayload(StoredOne))>>,
     <<JsonText(exportPayload(StoredFour))>>}
StoredIndexes ==
    {Null, <<NotANumber>>, <<Number(-1)>>, <<Number(1)>>, <<Number(3)>>}

\* the files the user may pick for import
ImportFiles ==
    {Unparseable,
     JsonText([kind |-> "string", items |-> <<>>]),
     JsonText([kind |-> "array", items |-> <<>>]),
     JsonText([kind |-> "array",
               items |-> <<JsonNull, JsonObject(Str(<<"x">>), Absent)>>]),
     JsonText([kind |-> "array",
               items |-> <<JsonObject(Str(<<" ", "x", " ">>),
                                      Str(<<"a", " ", " ", "b">>)),
                           JsonObject(Str(<<"x">>), Str(<<>>))>>]),
     JsonText(exportPayload(StoredOne))}

\* what the user may type, write as a draft, or edit a sentence to
TypedValues == {<<"a">>, <<" ", "a", "\n", "b", " ">>, TypedDefault1}
Drafts == {<<" ">>, <<" ", "c", " ">>}
EditTexts == {<<>>, <<"a", " ", " ", "b">>}

Init ==
    /\ sentences = DEFAULT_SENTENCES
    /\ isReady = FALSE
    /\ currentIndex = 0
    /\ inputValue = <<>>
    /\ draft = <<>>
    /\ importStatus = Null
    /\ storage \in [sentences : StoredSentences, index : StoredIndexes]
    /\ pending = MountEffects
    /\ imports = <<>>
    /\ timer = 0
    /\ crashed = FALSE
    /\ throws = 0
    /\ events = 0
    /\ last = "first render"
    /\ before = 0
    /\ idChanged = FALSE
    /\ overtaken = <<>>
    /\ MatchOff /\ LoadOff

(***************************************************************************)
(* Effects.                                                                *)
(***************************************************************************)
Min(a, b) == IF a < b THEN a ELSE b
Max(a, b) == IF a > b THEN a ELSE b

\* the index the restore effect sets: none for a missing or non-numeric
\* item, else the stored one clamped to the reference list
restoredIndex(storedIndex, referenceList) ==
    IF storedIndex = Null \/ storedIndex[1].nan THEN Null
    ELSE IF Len(referenceList) = 0 THEN <<0>>
    ELSE <<Min(Max(storedIndex[1].value, 0), Len(referenceList) - 1)>>

\* a variant that sets an empty list for a stored value that is no array
\* (a plausible slip: setSentences(parsed ?? []))
restoreEmptyOnInvalid(stored) ==
    IF stored.sentences # Null /\ ~stored.sentences[1].parses
    THEN {[sentences |-> Null, index |-> Null]}
    ELSE LET results ==
                 IF stored.sentences = Null
                 THEN {[ok |-> FALSE, sentences |-> <<>>]}
                 ELSE sanitizeSentencesPayload(stored.sentences[1].value)
         IN  {[sentences |-> IF r.ok \/ stored.sentences # Null
                             THEN <<r.sentences>> ELSE Null,
               index |-> restoredIndex(stored.index, r.sentences)] :
                  r \in results}

\* what the restore effect may set: [sentences, index], Null for no call.
\* A JSON.parse that throws skips the index too.
restore(stored) ==
    IF stored.sentences # Null /\ ~stored.sentences[1].parses
    THEN {[sentences |-> Null, index |-> Null]}
    ELSE LET results ==
                 IF stored.sentences = Null
                 THEN {[ok |-> FALSE, sentences |-> <<>>]}
                 ELSE sanitizeSentencesPayload(stored.sentences[1].value)
         IN  {[sentences |-> IF r.ok THEN <<r.sentences>> ELSE Null,
               index |-> restoredIndex(stored.index,
                             IF r.ok THEN r.sentences ELSE DEFAULT_SENTENCES)] :
                  r \in results}

\* a variant whose persisting effects do not wait for isReady (a plausible
\* slip: the guard left out)
writesDueBeforeReady(due, ready) ==
    {w \in {"sentences"} : "persistSentences" \in due}
    \cup {w \in {"index"} : "persistIndex" \in due}

\* the import status effect without its cleanup (a plausible slip: no
\* clearTimeout returned); two timers stand for two or more
armTimersNoCleanup(armed, status) ==
    IF status # Null THEN Min(armed + 1, 2) ELSE armed

\* the timers armed after the import status effect ran again: the cleanup
\* of its last run clears the timer of that run, if it has not fired, and
\* a status that is not null arms one
armTimers(armed, status) ==
    Max(armed - 1, 0) + (IF status # Null THEN 1 ELSE 0)

\* the localStorage.setItem calls of the effects due: which items
writesDue(due, ready) ==
    {w \in {"sentences"} : "persistSentences" \in due /\ ready}
    \cup {w \in {"index"} : "persistIndex" \in due /\ ready}

\* which of the setItem calls due may throw in one pass: none, or one of
\* them (the effect that follows an uncaught throw does not run), as long
\* as fewer than MaxThrows have thrown
mayThrow(due, thrownSoFar) ==
    {{}} \cup {{w} : w \in {d \in due : thrownSoFar < MaxThrows}}

\* The effects due after the last render run in the order of the source;
\* each sees the state of that render, and their state updates are applied
\* together, in call order, for the next render.  Any setItem may throw
\* (thrown).  The index effect catches it; the sentences effect does not:
\* React then skips the effects after it and unmounts the page.
RunEffects ==
    /\ pending # {}
    /\ ~crashed
    /\ \E thrown \in mayThrow(writesDue(pending, isReady), throws) :
          IF "sentences" \in thrown
          THEN /\ crashed' = TRUE
               /\ pending' = {}
               /\ last' = "uncaught error"
               /\ idChanged' = FALSE
               /\ throws' = throws + 1
               /\ UNCHANGED <<sentences, currentIndex, isReady, inputValue,
                              storage, timer>>
          ELSE /\ \E restored \in IF "restore" \in pending
                                  THEN restore(storage)
                                  ELSE {[sentences |-> Null, index |-> Null]} :
                     LET list1 == IF restored.sentences # Null
                                  THEN restored.sentences[1] ELSE sentences
                         set1 == IF restored.index # Null
                                 THEN restored.index[1] ELSE currentIndex
                         index1 == IF "clamp" \in pending
                                   THEN clampIndex(set1, Len(sentences))
                                   ELSE set1
                         ready1 == isReady \/ "restore" \in pending
                     IN  /\ sentences' = list1
                         /\ currentIndex' = index1
                         /\ isReady' = ready1
                         /\ idChanged' =
                               (currentIdOf(list1, index1)
                                   # currentIdOf(sentences, currentIndex))
                         /\ inputValue' = IF "resetInput" \in pending
                                          THEN <<>> ELSE inputValue
                         /\ pending' =
                               effectsAfter(sentences, currentIndex, isReady,
                                   list1, index1, ready1,
                                   IF restored.sentences # Null
                                   THEN {"sentences"} ELSE {})
               /\ storage' =
                     [sentences |->
                         IF "sentences" \in writesDue(pending, isReady)
                         THEN <<JsonText(exportPayload(sentences))>>
                         ELSE storage.sentences,
                      index |->
                         IF "index" \in writesDue(pending, isReady) \ thrown
                         THEN <<Number(currentIndex)>>
                         ELSE storage.index]
               /\ timer' = IF "statusTimer" \in pending
                           THEN armTimers(timer, importStatus) ELSE timer
               /\ crashed' = FALSE
               /\ throws' = throws + Cardinality(thrown)
               /\ last' = "effects"
    /\ UNCHANGED <<draft, importStatus, imports, events, before, overtaken,
                   matchVars, loadVars>>

(***************************************************************************)
(* Events.  A handler runs on a settled render (no effect due); the state  *)
(* updates of one handler are applied together.                            *)
(***************************************************************************)
Idle == pending = {} /\ isReady /\ ~crashed
Settled == Idle /\ events < MaxEvents

\* the next render, after a handler set the state to these values
Rendered(handler, list1, index1, input1, draft1, status1, touched) ==
    /\ last' = handler
    /\ sentences' = list1
    /\ currentIndex' = index1
    /\ inputValue' = input1
    /\ draft' = draft1
    /\ importStatus' = status1
    /\ pending' = effectsAfter(sentences, currentIndex, isReady,
                      list1, index1, isReady, touched)
    /\ before' = currentIndex
    /\ idChanged' =
          (currentIdOf(list1, index1) # currentIdOf(sentences, currentIndex))
    /\ UNCHANGED <<isReady, storage, crashed, throws, matchVars, loadVars>>

\* the same for a user or file event, which counts towards MaxEvents
Render(handler, list1, index1, input1, draft1, status1, touched) ==
    /\ Rendered(handler, list1, index1, input1, draft1, status1, touched)
    /\ events' = events + 1

\* the textarea's onChange: handleInputChange(value)
InputChange(value) ==
    /\ Settled
    /\ currentSentence # Null
    /\ IF isComplete(currentSentence[1].text, value)
       THEN Render("complete", sentences,
                advance(currentIndex, Len(sentences)), <<>>,
                draft, importStatus, {})
       ELSE Render("input", sentences, currentIndex, value, draft,
                importStatus, {})
    /\ UNCHANGED <<imports, overtaken, timer>>

\* the Skip button
Skip ==
    /\ Settled
    /\ currentSentence # Null
    /\ Render("skip", sentences, advance(currentIndex, Len(sentences)),
           inputValue, draft, importStatus, {})
    /\ UNCHANGED <<imports, overtaken, timer>>

\* a click on row index, or a focus of its textarea: setCurrentIndex(index)
Select(index) ==
    /\ Settled
    /\ index \in 0..(Len(sentences) - 1)
    /\ Render("select", sentences, index, inputValue, draft, importStatus, {})
    /\ UNCHANGED <<imports, overtaken, timer>>

\* the draft textarea's onChange
ChangeDraft(text) ==
    /\ Settled
    /\ Render("draft", sentences, currentIndex, inputValue, text,
           importStatus, {})
    /\ UNCHANGED <<imports, overtaken, timer>>

\* a variant that keeps the draft as typed (a plausible slip: no trim)
AddSentenceNoTrim(id) ==
    /\ Settled
    /\ Len(sentences) < MaxSentences
    /\ IF draft = <<>>
       THEN Render("add nothing", sentences, currentIndex, inputValue,
                draft, importStatus, {})
       ELSE Render("add", Append(sentences, [id |-> id, text |-> draft]),
                currentIndex, inputValue, <<>>, importStatus,
                {"sentences"})
    /\ UNCHANGED <<imports, overtaken, timer>>

\* the Save button: handleAddSentence, with id what makeId returns
AddSentence(id) ==
    /\ Settled
    /\ Len(sentences) < MaxSentences
    /\ LET cleaned == trim(draft)
       IN  IF cleaned = <<>>
           THEN Render("add nothing", sentences, currentIndex, inputValue,
                    draft, importStatus, {})
           ELSE Render("add",
                    Append(sentences, [id |-> id, text |-> cleaned]),
                    currentIndex, inputValue, <<>>, importStatus,
                    {"sentences"})
    /\ UNCHANGED <<imports, overtaken, timer>>

\* a variant that writes the text into every sentence (a plausible slip:
\* the id test left out)
updateSentenceAll(previous, id, text) ==
    [i \in 1..Len(previous) |-> [id |-> previous[i].id, text |-> text]]

\* previous.map(...) of handleUpdateSentence
updateSentence(previous, id, text) ==
    [i \in 1..Len(previous) |->
        IF previous[i].id = id
        THEN [id |-> previous[i].id, text |-> text]
        ELSE previous[i]]

\* the onChange of row index's textarea: handleUpdateSentence(id, text)
UpdateSentence(index, text) ==
    /\ Settled
    /\ index \in 0..(Len(sentences) - 1)
    /\ Render("update",
           updateSentence(sentences, sentences[index + 1].id, text),
           currentIndex, inputValue, draft, importStatus, {"sentences"})
    /\ UNCHANGED <<imports, overtaken, timer>>

\* previous.filter(...) of handleDeleteSentence
deleteSentence(previous, id) ==
    SelectSeq(previous, LAMBDA sentence : sentence.id # id)

\* a click on row index's Delete button: handleDeleteSentence(id), and the
\* click then reaches the row's own onClick, setCurrentIndex(index)
DeleteSentence(index) ==
    /\ Settled
    /\ index \in 0..(Len(sentences) - 1)
    /\ Render("delete",
           deleteSentence(sentences, sentences[index + 1].id), index,
           inputValue, draft, importStatus, {"sentences"})
    /\ UNCHANGED <<imports, overtaken, timer>>

\* handleImportFile up to its await: the status is cleared, the read starts
ImportStart(file) ==
    /\ Settled
    /\ Len(imports) < MaxReads
    /\ Render("import start", sentences, currentIndex, inputValue, draft, Null,
           IF importStatus # Null THEN {"importStatus"} ELSE {})
    /\ imports' = Append(imports, file)
    /\ overtaken' = Append(overtaken, FALSE)
    /\ UNCHANGED timer

\* a variant that accepts a non-empty array without a valid sentence
importOutcomesAcceptEmpty(file) ==
    IF ~file.parses THEN {[ok |-> FALSE, sentences |-> <<>>]}
    ELSE {IF ~parsed.ok THEN [ok |-> FALSE, sentences |-> <<>>] ELSE parsed :
             parsed \in sanitizeSentencesPayload(file.value)}

\* a variant that rejects every array without a valid sentence, the empty
\* one too
importOutcomesRejectEmpty(file) ==
    IF ~file.parses THEN {[ok |-> FALSE, sentences |-> <<>>]}
    ELSE {IF ~parsed.ok \/ Len(parsed.sentences) = 0
          THEN [ok |-> FALSE, sentences |-> <<>>]
          ELSE parsed :
             parsed \in sanitizeSentencesPayload(file.value)}

\* what the rest of handleImportFile may do with a file that was read:
\* [ok, sentences]; not ok is the catch branch
importOutcomes(file) ==
    IF ~file.parses THEN {[ok |-> FALSE, sentences |-> <<>>]}
    ELSE {IF ~parsed.ok
             \/ (/\ file.value.kind = "array" /\ Len(file.value.items) > 0
                 /\ Len(parsed.sentences) = 0)
          THEN [ok |-> FALSE, sentences |-> <<>>]
          ELSE parsed :
             parsed \in sanitizeSentencesPayload(file.value)}

Remove(seq, k) == SubSeq(seq, 1, k - 1) \o SubSeq(seq, k + 1, Len(seq))

\* a variant whose success branch leaves the index and the typed input (a
\* plausible slip)
ImportDoneKeepIndex(k) ==
    /\ Settled
    /\ k \in 1..Len(imports)
    /\ \E outcome \in importOutcomes(imports[k]) :
          IF outcome.ok
          THEN Render("import success", outcome.sentences, currentIndex,
                   inputValue, draft, <<[type |-> "success"]>>,
                   {"sentences", "importStatus"})
          ELSE Render("import error", sentences, currentIndex, inputValue,
                   draft, <<[type |-> "error"]>>, {"importStatus"})
    /\ imports' = Remove(imports, k)
    /\ overtaken' =
          Remove([i \in 1..Len(imports) |->
                     overtaken[i] \/ (i < k /\ last' = "import success")], k)
    /\ UNCHANGED timer

\* handleImportFile after its await, for the k-th read in flight
ImportDone(k) ==
    /\ Settled
    /\ k \in 1..Len(imports)
    /\ \E outcome \in importOutcomes(imports[k]) :
          IF outcome.ok
          THEN Render("import success", outcome.sentences, 0, <<>>, draft,
                   <<[type |-> "success"]>>, {"sentences", "importStatus"})
          ELSE Render("import error", sentences, currentIndex, inputValue,
                   draft, <<[type |-> "error"]>>, {"importStatus"})
    /\ imports' = Remove(imports, k)
    /\ overtaken' =
          Remove([i \in 1..Len(imports) |->
                     overtaken[i] \/ (i < k /\ last' = "import success")], k)
    /\ UNCHANGED timer

\* the timeout of the import status effect fires: setImportStatus(null)
StatusTimeout ==
    /\ Idle
    /\ timer > 0
    /\ Rendered("timeout", sentences, currentIndex, inputValue, draft, Null,
           IF importStatus # Null THEN {"importStatus"} ELSE {})
    /\ timer' = timer - 1
    /\ UNCHANGED <<imports, overtaken, events>>

Next ==
    \/ RunEffects
    \/ \E value \in TypedValues : InputChange(value)
    \/ Skip
    \/ \E index \in 0..(MaxSentences - 1) : Select(index)
    \/ \E text \in Drafts : ChangeDraft(text)
    \/ \E id \in makeId : AddSentence(id)
    \/ \E index \in 0..(MaxSentences - 1), text \in EditTexts :
          UpdateSentence(index, text)
    \/ \E index \in 0..(MaxSentences - 1) : DeleteSentence(index)
    \/ \E file \in ImportFiles : ImportStart(file)
    \/ \E k \in 1..MaxReads : ImportDone(k)
    \/ StatusTimeout

Spec == Init /\ [][Next]_vars

\* React runs the effects that are due after every render, and the
\* browser fires a timeout that stays armed
FairSpec ==
    Init /\ [][Next]_vars /\ WF_vars(RunEffects) /\ WF_vars(StatusTimeout)

(***************************************************************************)
(* Claims about the session (Spec).                                        *)
(***************************************************************************)

\* C1: in every rendered state, if the collection is non-empty then
\* 0 <= currentIndex <= length - 1.
C1_IndexInRange ==
    sentences # <<>> => currentIndex \in 0..(Len(sentences) - 1)

\* the ids of a stored document that parses to an array of objects
StoredIdsDistinct ==
    (storage.sentences # Null /\ storage.sentences[1].parses) =>
        LET items == storage.sentences[1].value.items
        IN  \A i, j \in 1..Len(items) : i # j => items[i].id # items[j].id

\* C2: after any sequence of restore, add, edit, delete and import, the ids
\* of the in-memory collection, and of the document written to storage,
\* are pairwise distinct, a generated id being any value makeId may return.
C2_IdsDistinct == DistinctIds(sentences) /\ StoredIdsDistinct

\* a file whose import fails, stated from the file alone: it does not
\* parse, or is no array, or is a non-empty array without a valid sentence
IsBadFile(file) ==
    \/ ~file.parses
    \/ file.value.kind # "array"
    \/ /\ file.value.items # <<>>
       /\ \A i \in 1..Len(file.value.items) :
              ~IsSentenceLike(file.value.items[i])

\* C3: a failed import leaves the collection, the current index and the
\* typed input as they were and sets an error status: the step that ends
\* the read of a bad file changes none of the three and sets the error,
\* the step that started a read changed none of them, and neither do the
\* effects that follow either step.
C3_FailedImportKeepsState ==
    [][/\ \A k \in 1..MaxReads :
             (/\ k <= Len(imports) /\ IsBadFile(imports[k])
              /\ imports' = Remove(imports, k)) =>
                 /\ sentences' = sentences
                 /\ currentIndex' = currentIndex
                 /\ inputValue' = inputValue
                 /\ importStatus' = <<[type |-> "error"]>>
       /\ (\/ Len(imports') > Len(imports)
           \/ (/\ last \in {"import start", "import error"}
               /\ last' = "effects"))
             => /\ sentences' = sentences
                /\ currentIndex' = currentIndex
                /\ inputValue' = inputValue]_vars

\* C3 witness: an import has failed in a session that had moved to the
\* second sentence and typed into it.
C3_Witness ==
    /\ last = "import error"
    /\ importStatus = <<[type |-> "error"]>>
    /\ currentIndex = 1 /\ inputValue = <<"a">>

\* C8: when completion fires, and when Skip is pressed, the current index
\* becomes (current + 1) mod length and the collection is unchanged; on
\* completion the typed input becomes empty.
C8_AdvanceWraps ==
    [][/\ last' \in {"complete", "skip"} =>
             /\ currentIndex' = (currentIndex + 1) % Len(sentences)
             /\ (currentIndex = Len(sentences) - 1 => currentIndex' = 0)
             /\ sentences' = sentences
       /\ last' = "complete" => inputValue' = <<>>]_vars

\* C8 witness: a completion at the last of two or more positions has
\* wrapped to position 0.
C8_Witness ==
    /\ last = "complete"
    /\ Len(sentences) >= 2
    /\ currentIndex = 0 /\ inputValue = <<>>

\* the index the claimed clamping gives for a previous index and a new length
ClampedTo(previous, length) ==
    IF length = 0 THEN 0
    ELSE IF previous < length THEN previous
    ELSE length - 1

\* C12: after a deletion and the clamp step that follows it, the current
\* index is the index from before the deletion if that is below the new
\* length, the new length - 1 if it was not and the collection is not
\* empty, and 0 with no current sentence if the collection became empty.
C12_DeleteThenClamp ==
    [][(last = "delete" /\ last' = "effects") =>
          /\ currentIndex' = ClampedTo(before, Len(sentences'))
          /\ sentences' = <<>> => currentSentence' = Null]_vars

\* the stored sentence item is absent, or parses to an array
StoredListOrNone ==
    \/ storage.sentences = Null
    \/ /\ storage.sentences[1].parses
       /\ storage.sentences[1].value.kind = "array"

\* C13: at startup, with a valid stored sentence document L (or none, and
\* then L is the default list) and a stored integer index i, the current
\* index after the mount effects is min(max(i, 0), |L| - 1), or 0 if L is
\* empty.
C13_StartupIndexClamped ==
    [][(/\ last = "first render" /\ last' = "effects"
        /\ StoredListOrNone
        /\ storage.index # Null /\ ~storage.index[1].nan) =>
          LET L == IF storage.sentences = Null
                   THEN DEFAULT_SENTENCES ELSE sentences'
              i == storage.index[1].value
          IN  currentIndex' =
                 IF L = <<>> THEN 0
                 ELSE IF i < 0 THEN 0
                 ELSE IF i > Len(L) - 1 THEN Len(L) - 1
                 ELSE i]_vars

\* the k-th read in flight ends in this step
Finishes(k) == k <= Len(imports) /\ imports' = Remove(imports, k)

\* C14: an import whose parsed JSON is an empty array succeeds and leaves
\* an empty collection; one whose parsed JSON is a non-empty array of which
\* no entry is a valid sentence is an error and leaves the collection.
C14_EmptyArrayVersusGarbage ==
    [][\A k \in 1..MaxReads :
          (Finishes(k) /\ imports[k].parses
              /\ imports[k].value.kind = "array") =>
             LET items == imports[k].value.items
             IN  /\ items = <<>> =>
                       /\ sentences' = <<>>
                       /\ importStatus' = <<[type |-> "success"]>>
                 /\ (/\ items # <<>>
                     /\ \A i \in 1..Len(items) : ~IsSentenceLike(items[i])) =>
                       /\ sentences' = sentences
                       /\ importStatus' = <<[type |-> "error"]>>]_vars

\* C14 witness: an empty array was imported into a collection in use.
C14_Witness ==
    /\ last = "import success"
    /\ sentences = <<>>
    /\ importStatus = <<[type |-> "success"]>>
    /\ storage.sentences # Null /\ storage.sentences[1].parses
    /\ storage.sentences[1].value.items # <<>>

\* C15: after a successful import the collection is the sanitized payload,
\* the current index is 0, the typed input is empty and the status is
\* success, whatever they were before; a file that is the export of a
\* collection with distinct, trimmed ids restores exactly that collection.
C15_SuccessfulImportResets ==
    [][\A k \in 1..MaxReads :
          (Finishes(k) /\ ~IsBadFile(imports[k])) =>
             /\ \E r \in sanitizeSentencesPayload(imports[k].value) :
                   r.ok /\ sentences' = r.sentences
             /\ currentIndex' = 0
             /\ inputValue' = <<>>
             /\ importStatus' = <<[type |-> "success"]>>
             /\ \A c \in {StoredOne, StoredFour} :
                   imports[k].value = exportPayload(c) => sentences' = c]_vars

\* C15 witness: an exported collection was imported over the default
\* collection while its second sentence was the current one.
C15_Witness ==
    /\ last = "import success"
    /\ sentences = StoredOne
    /\ before = 1
    /\ storage.sentences = <<JsonText(exportPayload(DEFAULT_SENTENCES))>>
    /\ currentIndex = 0 /\ inputValue = <<>>

\* C16: of two imports with valid payloads, the one started later
\* determines the collection and the index once both have finished,
\* whichever read completes first: the step that ends a read after a read
\* started later has already succeeded leaves the collection and the index.
C16_LaterImportWins ==
    [][\A k \in 1..MaxReads :
          (Finishes(k) /\ overtaken[k] /\ ~IsBadFile(imports[k])) =>
             /\ sentences' = sentences
             /\ currentIndex' = currentIndex]_vars

\* the stored sentence item does not parse as JSON, or is not an array
StoredListBroken ==
    /\ storage.sentences # Null
    /\ \/ ~storage.sentences[1].parses
       \/ storage.sentences[1].value.kind # "array"

\* C17: if at startup the stored sentence document does not parse or is
\* not an array, the session still becomes ready, with the default list as
\* the collection and the current index within that list's range.
C17_BrokenStoreStillReady ==
    StoredListBroken =>
        <>(/\ isReady
           /\ sentences = DEFAULT_SENTENCES
           /\ currentIndex \in 0..(Len(DEFAULT_SENTENCES) - 1))

\* C17 witness: ready on the default list although the stored document
\* was unreadable, with the stored index not restored.
C17_Witness ==
    /\ isReady /\ events = 0 /\ last = "effects"
    /\ storage.sentences = <<Unparseable>>
    /\ storage.index = <<Number(1)>>
    /\ sentences = DEFAULT_SENTENCES /\ currentIndex = 0

\* C18: a storage write that throws is caught inside the persisting step:
\* no effect ends in an uncaught error, so the page stays mounted with its
\* state and goes on handling events.
C18_WriteFailureCaught == ~crashed

\* C19: an edit changes only the text of the sentence with the edited id:
\* the collection's length and order, every id, the text of every sentence
\* with another id and the current index stay.
C19_EditChangesOnlyText ==
    [][last' = "update" =>
          /\ Len(sentences') = Len(sentences)
          /\ \A i \in 1..Len(sentences) : sentences'[i].id = sentences[i].id
          /\ \E j \in 1..Len(sentences) :
                \A i \in 1..Len(sentences) :
                    sentences[i].id # sentences[j].id =>
                        sentences'[i].text = sentences[i].text
          /\ currentIndex' = currentIndex]_vars

\* C19 witness: the first of the three default sentences was edited while
\* the second was the current one.
C19_Witness ==
    /\ last = "update"
    /\ Len(sentences) = 3
    /\ sentences[1] = [id |-> <<"s-1">>, text |-> <<"a", " ", " ", "b">>]
    /\ sentences[2] = DEFAULT_SENTENCES[2]
    /\ sentences[3] = DEFAULT_SENTENCES[3]
    /\ currentIndex = 1

\* C20: after any sequence of add, edit, delete and import operations,
\* every sentence of the collection has a non-empty text.
C20_TextsNonEmpty ==
    \A i \in 1..Len(sentences) : sentences[i].text # <<>>

\* C21: adding with a draft that is empty after trimming leaves the
\* collection and the draft; otherwise it appends exactly one sentence,
\* with a generated id and the trimmed draft as text, at the end, leaves
\* every existing sentence and the current index, and clears the draft.
C21_AddAppendsTrimmedDraft ==
    [][last' \in {"add", "add nothing"} =>
          IF Stripped(draft) = <<>>
          THEN sentences' = sentences /\ draft' = draft
          ELSE /\ Len(sentences') = Len(sentences) + 1
               /\ SubSeq(sentences', 1, Len(sentences)) = sentences
               /\ sentences'[Len(sentences')].text = Stripped(draft)
               /\ sentences'[Len(sentences')].id \in makeId
               /\ currentIndex' = currentIndex
               /\ draft' = <<>>]_vars

\* C21 witness: a draft with spaces around one word was added to the
\* default collection while its second sentence was the current one.
C21_Witness ==
    /\ last = "add"
    /\ Len(sentences) = 4
    /\ SubSeq(sentences, 1, 3) = DEFAULT_SENTENCES
    /\ sentences[4].text = <<"c">>
    /\ currentIndex = 1 /\ draft = <<>>

\* C23: no write of the sentence document or of the index happens before
\* the restore attempt has finished (isReady); so with a valid stored
\* sentence document at startup, the first sentence document written back
\* is the restored collection, and not the default list unless that is
\* what was restored.
C23_NoWriteBeforeReady ==
    [][/\ storage' # storage => isReady
       /\ last = "first render" => storage' = storage
       /\ (/\ events = 0 /\ isReady /\ "persistSentences" \in pending
           /\ ~crashed'
           /\ storage.sentences # Null /\ StoredListOrNone) =>
             \E r \in sanitizeSentencesPayload(storage.sentences[1].value) :
                /\ r.ok /\ sentences = r.sentences
                /\ storage'.sentences = <<JsonText(exportPayload(r.sentences))>>
                /\ r.sentences # DEFAULT_SENTENCES =>
                      storage'.sentences #
                          <<JsonText(exportPayload(DEFAULT_SENTENCES))>>]_vars

\* C23 witness: the four stored sentences were restored and written back,
\* before any event.
C23_Witness ==
    /\ events = 0 /\ isReady /\ pending = {} /\ ~crashed
    /\ sentences = StoredFour
    /\ storage.sentences = <<JsonText(exportPayload(StoredFour))>>
    /\ storage.index = <<Number(0)>>

\* the handlers that do not set the typed input themselves
LeavesInputToEffect ==
    {"select", "skip", "delete", "update", "add", "add nothing", "draft",
     "import start", "import error", "timeout"}

\* C24: whenever the id of the current sentence changes, the typed input
\* is reset to the empty string before the next input change is handled:
\* the step after such a change is the effects pass, and it empties the
\* input; when the id does not change (an edit of the current sentence, a
\* Skip in a one-sentence collection) the typed input is left as it is.
C24_InputResetOnIdChange ==
    [][/\ (idChanged /\ ~crashed') =>
             (last' = "effects" /\ inputValue' = <<>>)
       /\ (~idChanged' /\ last' \in LeavesInputToEffect) =>
             inputValue' = inputValue
       /\ (~idChanged /\ last # "first render" /\ last' = "effects") =>
             inputValue' = inputValue]_vars

\* C24 witness: a selection moved from the first to the third default
\* sentence and the effects pass after it left an empty input.
C24_Witness ==
    /\ last = "effects" /\ events = 2
    /\ inputValue = <<>> /\ currentIndex = 2 /\ before = 0
    /\ sentences = DEFAULT_SENTENCES

\* C25: every import status message is eventually cleared (unless the
\* page is gone): the timer started for it fires and sets the status back
\* to null; a status replaced by a newer one has its timer cancelled, so
\* at most one timer is armed, and once the effects have run it is armed
\* exactly when a status is shown.
C25_StatusEventuallyCleared ==
    /\ [](timer \in {0, 1})
    /\ [](Idle => (timer = 1 <=> importStatus # Null))
    /\ (importStatus # Null) ~> (importStatus = Null \/ crashed)

\* C25 witness: the timer of a status fired and cleared it, after the last
\* event of the session.
C25_Witness ==
    /\ last = "timeout" /\ importStatus = Null /\ timer = 0
    /\ events = MaxEvents

=============================================================================
